---- MODULE Spec2Model ----
(***************************************************************************)
(* Model of tiktok_crawler/entities.py: the entity dataclasses (Author,    *)
(* Tag, Caption, Music, Media, Metrics), the composite Tiktok record, and  *)
(* Tiktok.save with the directory it writes to.                            *)
(*                                                                         *)
(* Python values are records carrying their class in the field "cls":      *)
(* a str is [cls |-> "str", chars |-> <<c1, ..., cn>>], None is            *)
(* [cls |-> "NoneType"], a list is [cls |-> "list", items |-> <<...>>],    *)
(* a raised exception is [cls |-> "Exception", type |-> ...].  A dict is   *)
(* a record without a "cls" field whose fields are the dict's keys.  An    *)
(* object has attribute a exactly when a is in the DOMAIN of its record.   *)
(***************************************************************************)
EXTENDS Integers, Sequences, FiniteSets, TLC

VARIABLES
    clock,          \* the wall clock datetime.datetime.now() reads
    Metrics_as_of,  \* the default of Metrics.as_of, set when the class is defined
    stale,          \* the element handles whose page is gone
    entity,         \* the object under operation (None before the first one)
    other,          \* the right operand of the last comparison
    args,           \* the arguments of the constructor call that built entity
    result,         \* what the last completed operation returned or raised,
                    \* and the handles that were stale when it ran
    files,          \* the target directory: file name -> content
    pc,             \* position inside Tiktok.save: "idle" or "save_video"
    call,           \* the path argument of the running save
    before,         \* the directory as it was when the last save started
    savedIds        \* ids of the records whose save has written to the directory

vars == <<clock, Metrics_as_of, stale, entity, other, args, result,
          files, pc, call, before, savedIds>>

\* ------------------------------------------------------------------ bounds
MaxClock == 2
MaxTags == 2

\* ------------------------------------------------------------ Python values
Str(c) == [cls |-> "str", chars |-> c]

None == [cls |-> "NoneType"]

List(s) == [cls |-> "list", items |-> s]

Raise(t) == [cls |-> "Exception", type |-> t]

IsExc(v) == "cls" \in DOMAIN v /\ v.cls = "Exception"

NotImplemented == [cls |-> "NotImplementedType"]

Bool(b) == [cls |-> "bool", value |-> b]

WebElement(h) == [cls |-> "WebElement", id |-> Str(<<h>>)]

\* str.strip() with no argument removes leading and trailing whitespace.
Whitespace == {" ", "\t", "\n", "\r"}

RECURSIVE lstrip(_)
lstrip(c) ==
    IF c # <<>> /\ Head(c) \in Whitespace THEN lstrip(Tail(c)) ELSE c

RECURSIVE rstrip(_)
rstrip(c) ==
    IF c # <<>> /\ c[Len(c)] \in Whitespace
    THEN rstrip(SubSeq(c, 1, Len(c) - 1))
    ELSE c

strip(s) == Str(rstrip(lstrip(s.chars)))

\* datetime.datetime.now().isoformat(): the clock reading rendered as text.
isoformat(t) == Str(<<"T", ToString(t)>>)

\* get_attribute that swallows a stale handle and returns empty markup.
get_attribute_silent(element, staleHandles) ==
    IF element.cls # "WebElement" THEN Raise("AttributeError")
    ELSE IF element \in staleHandles THEN Str(<<>>)
    ELSE Str(<<"<">> \o element.id.chars \o <<">">>)

\* WebElement.get_attribute("innerHTML") as the entities call it: on None it
\* is an attribute lookup on NoneType, on a handle whose page is gone the
\* driver raises, otherwise it returns the markup as a str.
get_attribute(element, staleHandles) ==
    IF element.cls # "WebElement" THEN Raise("AttributeError")
    ELSE IF element \in staleHandles
    THEN Raise("StaleElementReferenceException")
    ELSE Str(<<"<">> \o element.id.chars \o <<">">>)

\* ------------------------------------------------------------------ Author
Author_post_init(self) ==
    [self EXCEPT !.uniqueid = strip(self.uniqueid),
                 !.avatar = strip(self.avatar),
                 !.link = strip(self.link),
                 !.nickname = strip(self.nickname)]

Author(uniqueid, avatar, link, nickname, element) ==
    Author_post_init([cls |-> "Author", uniqueid |-> uniqueid,
                      avatar |-> avatar, link |-> link,
                      nickname |-> nickname, element |-> element])

\* __eq__ that forgets the profile link.
Author_eq_uniqueid_only(self, obj) ==
    IF "uniqueid" \notin DOMAIN obj THEN Raise("AttributeError")
    ELSE Bool(self.uniqueid = obj.uniqueid)

Author_eq(self, obj) ==
    IF "uniqueid" \notin DOMAIN obj THEN Raise("AttributeError")
    ELSE IF self.uniqueid # obj.uniqueid THEN Bool(FALSE)
    ELSE IF "link" \notin DOMAIN obj THEN Raise("AttributeError")
    ELSE Bool(self.link = obj.link)

Author_repr(self) ==
    Str(<<"Author(uniqueid=">> \o self.uniqueid.chars \o <<", nickname=">>
        \o self.nickname.chars \o <<")">>)

Author_to_dict(self, staleHandles) ==
    LET e == get_attribute(self.element, staleHandles)
    IN  IF IsExc(e) THEN e
        ELSE [uniqueid |-> self.uniqueid, nickname |-> self.nickname,
              link |-> self.link, avatar |-> self.avatar, element |-> e]

\* --------------------------------------------------------------------- Tag
Tag_post_init(self) ==
    [self EXCEPT !.link = strip(self.link), !.text = strip(self.text)]

Tag(link, text, element) ==
    Tag_post_init([cls |-> "Tag", link |-> link, text |-> text,
                   element |-> element])

Tag_eq(self, obj) ==
    IF "text" \notin DOMAIN obj THEN Raise("AttributeError")
    ELSE IF self.text # obj.text THEN Bool(FALSE)
    ELSE IF "link" \notin DOMAIN obj THEN Raise("AttributeError")
    ELSE Bool(self.link = obj.link)

Tag_repr(self) ==
    Str(<<"Tag(link=">> \o self.link.chars \o <<", text=">>
        \o self.text.chars \o <<")">>)

Tag_to_dict(self, staleHandles) ==
    LET e == get_attribute(self.element, staleHandles)
    IN  IF IsExc(e) THEN e
        ELSE [link |-> self.link, text |-> self.text, element |-> e]

\* ----------------------------------------------------------------- Caption
Caption_post_init(self) == [self EXCEPT !.text = strip(self.text)]

Caption(text, tags, element) ==
    Caption_post_init([cls |-> "Caption", text |-> text, tags |-> tags,
                       element |-> element])

\* repr of the list self.tags: "[", the tags' reprs joined by ", ", "]".
RECURSIVE join_reprs(_)
join_reprs(tags) ==
    IF tags = <<>> THEN <<>>
    ELSE IF Len(tags) = 1 THEN Tag_repr(tags[1]).chars
    ELSE Tag_repr(tags[1]).chars \o <<", ">> \o join_reprs(Tail(tags))

Caption_repr(self) ==
    Str(<<"Caption(text=">> \o self.text.chars \o <<", tags=[">>
        \o join_reprs(self.tags) \o <<"])">>)

\* to_dict that emits the tags last to first.
Caption_to_dict_reversed(self, staleHandles) ==
    LET n == Len(self.tags)
        tagDicts == [i \in 1..n |->
                        Tag_to_dict(self.tags[n + 1 - i], staleHandles)]
        failed == {i \in 1..n : IsExc(tagDicts[i])}
        e == get_attribute(self.element, staleHandles)
    IN  IF failed # {}
        THEN tagDicts[CHOOSE i \in failed : \A j \in failed : i <= j]
        ELSE IF IsExc(e) THEN e
        ELSE [tags |-> List(tagDicts), text |-> self.text, element |-> e]

\* The list comprehension over self.tags is evaluated first, in order; the
\* first tag whose to_dict raises ends the call with that exception.
Caption_to_dict(self, staleHandles) ==
    LET tagDicts == [i \in 1..Len(self.tags) |->
                        Tag_to_dict(self.tags[i], staleHandles)]
        failed == {i \in 1..Len(self.tags) : IsExc(tagDicts[i])}
        e == get_attribute(self.element, staleHandles)
    IN  IF failed # {}
        THEN tagDicts[CHOOSE i \in failed : \A j \in failed : i <= j]
        ELSE IF IsExc(e) THEN e
        ELSE [tags |-> List(tagDicts), text |-> self.text, element |-> e]

\* ------------------------------------------------------------------- Music
Music_post_init(self) ==
    [self EXCEPT !.title = strip(self.title), !.link = strip(self.link)]

Music(title, link, element) ==
    Music_post_init([cls |-> "Music", title |-> title, link |-> link,
                     element |-> element])

Music_eq(self, obj) ==
    IF "title" \notin DOMAIN obj THEN Raise("AttributeError")
    ELSE IF self.title # obj.title THEN Bool(FALSE)
    ELSE IF "link" \notin DOMAIN obj THEN Raise("AttributeError")
    ELSE Bool(self.link = obj.link)

Music_repr(self) ==
    Str(<<"Music(title=">> \o self.title.chars \o <<", link=">>
        \o self.link.chars \o <<")">>)

Music_to_dict(self, staleHandles) ==
    LET e == get_attribute(self.element, staleHandles)
    IN  IF IsExc(e) THEN e
        ELSE [title |-> self.title, link |-> self.link, element |-> e]

\* ------------------------------------------------------------------- Media
Media_post_init(self) == [self EXCEPT !.link = strip(self.link)]

Media(link, element) ==
    Media_post_init([cls |-> "Media", link |-> link, element |-> element])

Media_repr(self) == Str(<<"Media(link=">> \o self.link.chars \o <<")">>)

Media_to_dict(self, staleHandles) ==
    LET e == get_attribute(self.element, staleHandles)
    IN  IF IsExc(e) THEN e
        ELSE [link |-> self.link, element |-> e]

\* ----------------------------------------------------------------- Metrics
\* __post_init__ that leaves shares as extracted.
Metrics_post_init_raw_shares(self) ==
    [self EXCEPT !.likes = strip(self.likes),
                 !.comments = strip(self.comments)]

Metrics_post_init(self) ==
    [self EXCEPT !.likes = strip(self.likes),
                 !.comments = strip(self.comments),
                 !.shares = strip(self.shares)]

Metrics(likes, comments, shares, element, as_of) ==
    Metrics_post_init([cls |-> "Metrics", likes |-> likes,
                       comments |-> comments, shares |-> shares,
                       element |-> element, as_of |-> as_of])

Metrics_repr(self) ==
    Str(<<"Metrics(likes=">> \o self.likes.chars \o <<", comments=">>
        \o self.comments.chars \o <<",shares=">> \o self.shares.chars
        \o <<", as_of=">> \o self.as_of.chars \o <<" )">>)

Metrics_to_dict(self, staleHandles) ==
    LET e == get_attribute(self.element, staleHandles)
    IN  IF IsExc(e) THEN e
        ELSE [likes |-> self.likes, comments |-> self.comments,
              shares |-> self.shares, as_of |-> self.as_of, element |-> e]

\* ------------------------------------------------------------------ Tiktok
\* The dataclass has no __post_init__: the fields are stored as passed.
Tiktok(id, author, caption, music, media, metrics, element, status) ==
    [cls |-> "Tiktok", id |-> id, author |-> author, caption |-> caption,
     music |-> music, media |-> media, metrics |-> metrics,
     element |-> element, status |-> status]

Tiktok_eq(self, obj) ==
    IF "id" \notin DOMAIN obj THEN Raise("AttributeError")
    ELSE Bool(self.id = obj.id)

\* str() of a field inside an f-string: None renders as "None".
format(v) == IF v.cls = "NoneType" THEN <<"None">> ELSE v.chars

Tiktok_repr(self) ==
    Str(<<"Tiktok(id=">> \o self.id.chars \o <<", ">>
        \o format(self.status) \o <<", ">>
        \o Author_repr(self.author).chars \o <<", ">>
        \o Caption_repr(self.caption).chars \o <<", ">>
        \o Music_repr(self.music).chars \o <<", ">>
        \o Media_repr(self.media).chars \o <<", ">>
        \o Metrics_repr(self.metrics).chars \o <<")">>)

\* The keyword arguments of dict(...) are evaluated left to right; the first
\* one that raises ends the call.
Tiktok_to_dict(self, staleHandles) ==
    LET a == Author_to_dict(self.author, staleHandles)
        c == Caption_to_dict(self.caption, staleHandles)
        mu == Music_to_dict(self.music, staleHandles)
        me == Media_to_dict(self.media, staleHandles)
        mt == Metrics_to_dict(self.metrics, staleHandles)
        e == get_attribute(self.element, staleHandles)
    IN  IF IsExc(a) THEN a
        ELSE IF IsExc(c) THEN c
        ELSE IF IsExc(mu) THEN mu
        ELSE IF IsExc(me) THEN me
        ELSE IF IsExc(mt) THEN mt
        ELSE IF IsExc(e) THEN e
        ELSE [id |-> self.id, Author |-> a, Caption |-> c, Music |-> mu,
              Media |-> me, Metrics |-> mt, Element |-> e,
              Status |-> self.status]

\* ------------------------------------------------------------ the == operator
\* __eq__ as @dataclass generates it for the classes that define none
\* (Caption, Media, Metrics): the field tuples are compared when the classes
\* are the same, otherwise the comparison is handed to the other operand.
\* Lists compare element by element with the elements' own __eq__.
dataclass_eq(self, obj) ==
    IF obj.cls # self.cls THEN NotImplemented
    ELSE IF self.cls = "Caption"
    THEN Bool(/\ self.text = obj.text
              /\ Len(self.tags) = Len(obj.tags)
              /\ \A i \in 1..Len(self.tags) :
                    Tag_eq(self.tags[i], obj.tags[i]) = Bool(TRUE)
              /\ self.element = obj.element)
    ELSE Bool(self = obj)

\* type(self).__eq__(self, obj) for each class of left operand.
eq_method(self, obj) ==
    CASE self.cls = "Author" -> Author_eq(self, obj)
      [] self.cls = "Tag" -> Tag_eq(self, obj)
      [] self.cls = "Music" -> Music_eq(self, obj)
      [] self.cls = "Tiktok" -> Tiktok_eq(self, obj)
      [] self.cls \in {"Caption", "Media", "Metrics"} -> dataclass_eq(self, obj)
      [] self.cls = "str" ->
            IF obj.cls = "str" THEN Bool(self = obj) ELSE NotImplemented
      [] OTHER -> IF obj.cls = self.cls THEN Bool(TRUE) ELSE NotImplemented

\* a == b on two distinct objects: a's __eq__ first; when it declines, b's
\* reflected __eq__; when both decline, identity, which is false here.
PyEq(a, b) ==
    LET r == eq_method(a, b)
    IN  IF r # NotImplemented THEN r
        ELSE LET r2 == eq_method(b, a)
             IN  IF r2 # NotImplemented THEN r2 ELSE Bool(FALSE)

\* repr(x) and x.to_dict() dispatched on the class of x.
repr(x) ==
    CASE x.cls = "Author" -> Author_repr(x)
      [] x.cls = "Tag" -> Tag_repr(x)
      [] x.cls = "Caption" -> Caption_repr(x)
      [] x.cls = "Music" -> Music_repr(x)
      [] x.cls = "Media" -> Media_repr(x)
      [] x.cls = "Metrics" -> Metrics_repr(x)
      [] x.cls = "Tiktok" -> Tiktok_repr(x)

to_dict(x, staleHandles) ==
    CASE x.cls = "Author" -> Author_to_dict(x, staleHandles)
      [] x.cls = "Tag" -> Tag_to_dict(x, staleHandles)
      [] x.cls = "Caption" -> Caption_to_dict(x, staleHandles)
      [] x.cls = "Music" -> Music_to_dict(x, staleHandles)
      [] x.cls = "Media" -> Media_to_dict(x, staleHandles)
      [] x.cls = "Metrics" -> Metrics_to_dict(x, staleHandles)
      [] x.cls = "Tiktok" -> Tiktok_to_dict(x, staleHandles)

\* ------------------------------------------------------------------ inputs
Handles == {"e1", "e2"}

Elements == {WebElement(h) : h \in Handles}

\* Raw extracted text: all whitespace, leading, trailing (a newline), and
\* padded on both sides with whitespace inside.
RawStrings ==
    {Str(<<" ", " ">>), Str(<<" ", "a">>), Str(<<"a", "\n">>),
     Str(<<"\t", "a", " ", "b", " ">>)}

EntityClasses ==
    {"Author", "Tag", "Caption", "Music", "Media", "Metrics", "Tiktok"}

SampleTags ==
    {Tag(Str(<<" ", "/", "t", "1">>), Str(<<"#", "1", " ">>), WebElement("e1")),
     Tag(Str(<<"/", "t", "2">>), Str(<<"#", "2">>), WebElement("e2"))}

RECURSIVE SeqsUpTo(_, _)
SeqsUpTo(S, n) ==
    IF n = 0 THEN {<<>>}
    ELSE LET shorter == SeqsUpTo(S, n - 1)
         IN  shorter \cup {Append(q, x) : q \in shorter, x \in S}

TagLists == SeqsUpTo(SampleTags, MaxTags)

NoResult == [op |-> "none"]

NoFile == [cls |-> "NoFile"]

\* ----------------------------------------------------------- initial state
\* The module has been imported: the class bodies have run, so the default
\* of Metrics.as_of has been computed from the clock; nothing is constructed
\* and the directory is empty.
\* The directories that exist on disk, the paths save is called with, and
\* the ids the saved records carry.
Directories == {Str(<<"out">>)}

Paths == Directories \cup {Str(<<"missing">>)}

SaveIds == {Str(<<"1">>), Str(<<" ", "2">>)}

\* os.path.join(path, name)
os_path_join(path, name) == Str(path.chars \o <<"/">> \o name.chars)

\* f"{self.id}.json" and f"{self.id}.mp4"
file_name(id, ext) == Str(id.chars \o <<ext>>)

FileNames ==
    {os_path_join(d, file_name(id, ext)) :
        d \in Directories, id \in SaveIds, ext \in {".json", ".mp4"}}

Init ==
    /\ clock = 0
    /\ Metrics_as_of = isoformat(clock)
    /\ stale = {}
    /\ entity = None
    /\ other = None
    /\ args = None
    /\ result = NoResult
    /\ files = [n \in FileNames |-> NoFile]
    /\ pc = "idle"
    /\ call = None
    /\ before = [n \in FileNames |-> NoFile]
    /\ savedIds = {}

\* ------------------------------------------------------ environment steps
Tick ==
    /\ clock < MaxClock
    /\ clock' = clock + 1
    /\ UNCHANGED <<Metrics_as_of, stale, entity, other, args, result,
                   files, pc, call, before, savedIds>>

\* The page an element belongs to navigates away: the handle goes stale.
Navigate ==
    \E e \in Elements \ stale :
        /\ stale' = stale \cup {e}
        /\ UNCHANGED <<clock, Metrics_as_of, entity, other, args, result,
                       files, pc, call, before, savedIds>>

\* ------------------------------------------------------------ constructors
\* A constructor call returns the new object; the arguments it was given
\* are kept beside it.
Constructed(obj, a) ==
    /\ pc = "idle"
    /\ entity' = obj
    /\ args' = a
    /\ result' = [op |-> "init"]
    /\ UNCHANGED <<clock, Metrics_as_of, stale, other, files, pc, call,
                   before, savedIds>>

New_Tag ==
    /\ entity = None
    /\ \E link \in RawStrings, text \in RawStrings, element \in Elements \cup {None} :
        Constructed(Tag(link, text, element),
                    [cls |-> "Tag", link |-> link, text |-> text,
                     element |-> element])

New_Author ==
    /\ entity = None
    /\ \E uniqueid \in RawStrings, avatar \in RawStrings, link \in RawStrings,
       nickname \in RawStrings, element \in Elements \cup {None} :
        Constructed(Author(uniqueid, avatar, link, nickname, element),
                    [cls |-> "Author", uniqueid |-> uniqueid,
                     avatar |-> avatar, link |-> link,
                     nickname |-> nickname, element |-> element])

New_Music ==
    /\ entity = None
    /\ \E title \in RawStrings, link \in RawStrings, element \in Elements \cup {None} :
        Constructed(Music(title, link, element),
                    [cls |-> "Music", title |-> title, link |-> link,
                     element |-> element])

New_Media ==
    /\ entity = None
    /\ \E link \in RawStrings, element \in Elements \cup {None} :
        Constructed(Media(link, element),
                    [cls |-> "Media", link |-> link, element |-> element])

New_Caption ==
    /\ entity = None
    /\ \E text \in RawStrings, tags \in TagLists, element \in Elements \cup {None} :
        Constructed(Caption(text, tags, element),
                    [cls |-> "Caption", text |-> text, tags |-> tags,
                     element |-> element])

\* Metrics(likes, comments, shares, element, as_of): as_of given.
New_Metrics ==
    /\ entity = None
    /\ \E likes \in RawStrings, comments \in RawStrings, shares \in RawStrings,
       element \in Elements \cup {None}, as_of \in RawStrings :
        Constructed(Metrics(likes, comments, shares, element, as_of),
                    [cls |-> "Metrics", likes |-> likes,
                     comments |-> comments, shares |-> shares,
                     element |-> element, as_of |-> as_of, now |-> clock])

\* Metrics(likes, comments, shares, element): as_of takes the class default.
New_Metrics_default ==
    /\ entity = None
    /\ \E likes \in RawStrings, comments \in RawStrings, shares \in RawStrings,
       element \in Elements \cup {None} :
        Constructed(Metrics(likes, comments, shares, element, Metrics_as_of),
                    [cls |-> "Metrics", likes |-> likes,
                     comments |-> comments, shares |-> shares,
                     element |-> element, as_of |-> None, now |-> clock])

\* Sub-entities a record is composed of, built by their constructors.
SampleAuthor ==
    Author(Str(<<" ", "u">>), Str(<<"a", "v", " ">>), Str(<<"/", "u", "\n">>),
           Str(<<"\t", "n">>), WebElement("e1"))

SampleMusic == Music(Str(<<" ", "s">>), Str(<<"/", "m", " ">>), WebElement("e1"))

SampleMetrics ==
    Metrics(Str(<<"1", "K", " ">>), Str(<<" ", "2">>), Str(<<"3">>),
            WebElement("e1"), Str(<<"T", "0">>))

VideoLinks == {Str(<<" ", " ">>), Str(<<" ", "http://v", "\n">>)}

Construct_Tiktok(id, author, caption, music, media, metrics, element, status) ==
    Constructed(Tiktok(id, author, caption, music, media, metrics, element,
                       status),
                [cls |-> "Tiktok", id |-> id, author |-> author,
                 caption |-> caption, music |-> music, media |-> media,
                 metrics |-> metrics, element |-> element, status |-> status])

New_Tiktok ==
    /\ entity = None
    /\ \E id \in RawStrings, tags \in TagLists, link \in VideoLinks,
       element \in Elements \cup {None},
       status \in {None, Str(<<" ", "o", "k", " ">>)} :
        Construct_Tiktok(id, SampleAuthor,
                         Caption(Str(<<" ", "c">>), tags, WebElement("e1")),
                         SampleMusic, Media(link, WebElement("e1")),
                         SampleMetrics, element, status)

\* ------------------------------------------------- describing, serialising
Call_repr ==
    /\ pc = "idle"
    /\ entity.cls \in EntityClasses
    /\ result' = [op |-> "repr", value |-> repr(entity), handles |-> stale]
    /\ UNCHANGED <<clock, Metrics_as_of, stale, entity, other, args, files,
                   pc, call, before, savedIds>>

Call_to_dict ==
    /\ pc = "idle"
    /\ entity.cls \in EntityClasses
    /\ result' = [op |-> "to_dict", value |-> to_dict(entity, stale),
                  handles |-> stale]
    /\ UNCHANGED <<clock, Metrics_as_of, stale, entity, other, args, files,
                   pc, call, before, savedIds>>

NextEntity ==
    \/ Tick
    \/ Navigate
    \/ New_Tag
    \/ New_Author
    \/ New_Music
    \/ New_Media
    \/ New_Caption
    \/ New_Metrics
    \/ New_Metrics_default
    \/ New_Tiktok
    \/ Call_repr
    \/ Call_to_dict

SpecEntity == Init /\ [][NextEntity]_vars

\* -------------------------------------------------------------------- save
\* json.dump: str -> JSON string, None -> null, dict -> object, list -> array.
RECURSIVE json_dumps(_)
json_dumps(v) ==
    IF "cls" \notin DOMAIN v
    THEN [cls |-> "JSONObject",
          members |-> [k \in DOMAIN v |-> json_dumps(v[k])]]
    ELSE CASE v.cls = "str" -> [cls |-> "JSONString", chars |-> v.chars]
           [] v.cls = "NoneType" -> [cls |-> "JSONNull"]
           [] v.cls = "list" ->
                [cls |-> "JSONArray",
                 items |-> [i \in DOMAIN v.items |-> json_dumps(v.items[i])]]

\* A file on disk holds the data written to it, in order.
EmptyFile == [cls |-> "file", content |-> <<>>]

\* open in append mode: an existing file keeps what it holds.
open_a(fs, file_path) ==
    IF fs[file_path] = NoFile THEN [fs EXCEPT ![file_path] = EmptyFile] ELSE fs

\* open(file_path, 'w+') and open(file_path, 'wb'): the file is created, or
\* truncated when it exists.
open_w(fs, file_path) == [fs EXCEPT ![file_path] = EmptyFile]

\* file.write / json.dump into the open file: the data goes after what the
\* file holds.
write(fs, file_path, data) ==
    [fs EXCEPT ![file_path].content = Append(@, data)]

\* What requests.get(self.media.link) can do: raise, or return a response
\* with a status code and a body.
Responses ==
    {[cls |-> "Response", status_code |-> 200,
      content |-> [cls |-> "bytes", data |-> <<"video">>]],
     [cls |-> "Response", status_code |-> 404,
      content |-> [cls |-> "bytes", data |-> <<"not found">>]]}

NoFetch == [cls |-> "NoFetch"]

\* save without the guard on the media link.
Tiktok_save_unguarded(self) == TRUE

\* "if self.media.link:" -- a str is true when it is not empty.
Tiktok_save_guard(self) == self.media.link.chars # <<>>

json_path(self, path) == os_path_join(path, file_name(self.id, ".json"))

mp4_path(self, path) == os_path_join(path, file_name(self.id, ".mp4"))

\* The record the extraction layer hands to save.
Scrape ==
    \E id \in SaveIds, link \in VideoLinks, element \in Elements :
        Construct_Tiktok(id, SampleAuthor,
                         Caption(Str(<<" ", "c">>), <<>>, WebElement("e1")),
                         SampleMusic, Media(link, WebElement("e1")),
                         SampleMetrics, element, None)

Finished(path, value, fetch) ==
    [op |-> "save", path |-> path, value |-> value, fetch |-> fetch,
     handles |-> stale]

\* Tiktok.save(path) up to the end of _save_metadata: the guard, the open of
\* <id>.json, to_dict, json.dump.  An exception ends the call.
Tiktok_save ==
    /\ pc = "idle"
    /\ entity.cls = "Tiktok"
    /\ \E path \in Paths :
        LET d == Tiktok_to_dict(entity, stale)
            jp == json_path(entity, path)
        IN  /\ before' = files
            /\ IF ~Tiktok_save_guard(entity)
               THEN /\ result' = Finished(path, None, NoFetch)
                    /\ UNCHANGED <<files, pc, call, savedIds>>
               ELSE IF path \notin Directories
               THEN /\ result' = Finished(path, Raise("FileNotFoundError"),
                                          NoFetch)
                    /\ UNCHANGED <<files, pc, call, savedIds>>
               ELSE IF IsExc(d)
               THEN /\ files' = open_w(files, jp)
                    /\ savedIds' = savedIds \cup {entity.id}
                    /\ result' = Finished(path, d, NoFetch)
                    /\ UNCHANGED <<pc, call>>
               ELSE /\ files' = write(open_w(files, jp), jp, json_dumps(d))
                    /\ savedIds' = savedIds \cup {entity.id}
                    /\ pc' = "save_video"
                    /\ call' = path
                    /\ result' = [op |-> "saving"]
    /\ UNCHANGED <<clock, Metrics_as_of, stale, entity, other, args>>

\* _save_video: requests.get, then the open of <id>.mp4 and the write of
\* response.content, whatever the status of the response.
Tiktok_save_video ==
    /\ pc = "save_video"
    /\ \/ /\ result' = Finished(call, Raise("ConnectionError"),
                                Raise("ConnectionError"))
          /\ UNCHANGED files
       \/ \E response \in Responses :
            LET mp == mp4_path(entity, call)
            IN  /\ files' = write(open_w(files, mp), mp, response.content)
                /\ result' = Finished(call, None, response)
    /\ pc' = "idle"
    /\ call' = None
    /\ UNCHANGED <<clock, Metrics_as_of, stale, entity, other, args, before,
                   savedIds>>

Next ==
    \/ Scrape
    \/ Navigate
    \/ Tiktok_save
    \/ Tiktok_save_video

Spec == Init /\ [][Next]_vars

\* -------------------------------------------------------------- comparison
\* The operands of ==: entities of every class built by their constructors
\* from raw strings that trim to two different texts, on either handle, and
\* the non-entity values None and a str.
CmpStrings == {Str(<<" ", "a">>), Str(<<"b">>)}

CmpTags == {Tag(l, t, e) : l \in CmpStrings, t \in CmpStrings, e \in Elements}

CmpAuthors ==
    {Author(u, av, l, n, e) :
        u \in CmpStrings, av \in CmpStrings, l \in CmpStrings,
        n \in CmpStrings, e \in Elements}

CmpMusics ==
    {Music(t, l, e) : t \in CmpStrings, l \in CmpStrings, e \in Elements}

CmpMedias == {Media(l, e) : l \in CmpStrings, e \in Elements}

CmpMetrics ==
    {Metrics(l, Str(<<"2">>), Str(<<"3">>), e, isoformat(t)) :
        l \in CmpStrings, e \in Elements, t \in 0..1}

CmpCaptions ==
    {Caption(t, tags, WebElement("e1")) :
        t \in CmpStrings, tags \in SeqsUpTo(SampleTags, 1)}

CmpTiktoks ==
    {Tiktok(id, SampleAuthor, Caption(Str(<<"c">>), <<>>, WebElement("e1")),
            SampleMusic, Media(Str(<<"http://v">>), WebElement("e1")), m, e,
            None) :
        id \in CmpStrings, m \in CmpMetrics, e \in {WebElement("e1")}}

CmpValues ==
    CmpTags \cup CmpAuthors \cup CmpMusics \cup CmpMedias \cup CmpMetrics
        \cup CmpCaptions \cup CmpTiktoks \cup {None, Str(<<"a">>)}

\* The expression a == b on two distinct objects, evaluated once on
\* operands of the caller's choice.
Compare ==
    /\ pc = "idle"
    /\ result = NoResult
    /\ \E a \in CmpValues, b \in CmpValues :
        /\ entity' = a
        /\ other' = b
        /\ result' = [op |-> "eq", value |-> PyEq(a, b), handles |-> stale]
    /\ UNCHANGED <<clock, Metrics_as_of, stale, args, files, pc, call,
                   before, savedIds>>

NextCompare == Compare

SpecCompare == Init /\ [][NextCompare]_vars

\* ======================================================================
\* Properties of construction, description and serialisation (SpecEntity)
\* ======================================================================
Trimmed(s) == strip(s) = s

\* The str-typed fields of each class, and those __post_init__ strips.
StringFields(cls) ==
    CASE cls = "Tag" -> {"link", "text"}
      [] cls = "Author" -> {"uniqueid", "avatar", "link", "nickname"}
      [] cls = "Music" -> {"title", "link"}
      [] cls = "Media" -> {"link"}
      [] cls = "Metrics" -> {"likes", "comments", "shares", "as_of"}
      [] cls = "Caption" -> {"text"}
      [] cls = "Tiktok" -> {"id", "status"}

StrippedFields(cls) ==
    CASE cls = "Metrics" -> {"likes", "comments", "shares"}
      [] cls = "Tiktok" -> {}
      [] OTHER -> StringFields(cls)

FieldIsTrimmedArgument(f) ==
    entity[f].cls = "str" =>
        /\ Trimmed(entity[f])
        /\ args[f].cls = "str" => entity[f] = strip(args[f])

\* C5 as stated: every string field of every constructed entity, the
\* timestamp of Metrics and the id and status of the record included, has no
\* leading or trailing whitespace and is the trimmed constructor argument.
C5_AllStringFieldsTrimmed ==
    entity.cls \in EntityClasses =>
        \A f \in StringFields(entity.cls) : FieldIsTrimmedArgument(f)

\* C5 amended: the string fields of Tag, Author, Music, Media and Caption and
\* the likes, comments and shares of Metrics have no leading or trailing
\* whitespace and equal the trimmed constructor argument; the as_of of
\* Metrics and the id and status of the record are stored exactly as passed.
C5_EntityFieldsTrimmed ==
    entity.cls \in EntityClasses =>
        /\ \A f \in StrippedFields(entity.cls) : FieldIsTrimmedArgument(f)
        /\ \A f \in StringFields(entity.cls) \ StrippedFields(entity.cls) :
              entity[f] = IF args[f] = None /\ f = "as_of"
                          THEN Metrics_as_of ELSE args[f]

C5_Witness ==
    /\ entity.cls = "Metrics"
    /\ args.likes # strip(args.likes)
    /\ entity.likes = strip(args.likes)
    /\ args.as_of.cls = "str"
    /\ ~Trimmed(entity.as_of)

\* C8 as stated: a Metrics constructed without an as_of carries the clock
\* reading of its own construction.
C8_DefaultAsOfIsConstructionTime ==
    (entity.cls = "Metrics" /\ args.as_of = None) =>
        entity.as_of = isoformat(args.now)

HandleInvalid(x, staleHandles) == x.element = None \/ x.element \in staleHandles

\* C9 as stated: no entity exists with a null handle (its construction
\* failed), and to_dict and repr on an entity whose handle is invalid end in
\* an error instead of a mapping or a description.
C9_InvalidHandleAlwaysFails ==
    entity.cls \in EntityClasses =>
        /\ entity.element # None
        /\ (result.op \in {"to_dict", "repr"}
                /\ HandleInvalid(entity, result.handles))
            => IsExc(result.value)

\* C9 amended: to_dict on an entity whose handle is null or stale ends in an
\* error and never in a mapping (AttributeError for a null handle and the
\* driver's stale-element error for a stale one, when the entity holds no
\* other entity); constructing with a null handle succeeds and repr returns
\* the description whatever the state of the handle.
C9_ToDictFailsOnInvalidHandle ==
    entity.cls \in EntityClasses =>
        /\ (result.op = "to_dict" /\ HandleInvalid(entity, result.handles))
            => /\ IsExc(result.value)
               /\ entity.cls \notin {"Caption", "Tiktok"} =>
                    result.value = IF entity.element = None
                                   THEN Raise("AttributeError")
                                   ELSE Raise("StaleElementReferenceException")
        /\ (result.op = "to_dict" /\ IsExc(result.value))
            => \/ HandleInvalid(entity, result.handles)
               \/ entity.cls \in {"Caption", "Tiktok"}
        /\ result.op = "repr" => result.value.cls = "str"

C9_Witness ==
    /\ entity.cls = "Media"
    /\ result.op = "to_dict"
    /\ entity.element \in result.handles
    /\ result.value = Raise("StaleElementReferenceException")

IsSnapshot(v) == v.cls = "str"

\* C10: the mapping to_dict returns for a record has exactly the keys id,
\* Author, Caption, Music, Media, Metrics, Element, Status, its nested
\* mappings have exactly their documented keys, the tags of Caption are in
\* the order they were supplied, and every element value is a str.
C10_ToDictShape ==
    (entity.cls = "Tiktok" /\ result.op = "to_dict" /\ ~IsExc(result.value)) =>
        LET d == result.value
            tags == d.Caption.tags.items
        IN  /\ DOMAIN d = {"id", "Author", "Caption", "Music", "Media",
                           "Metrics", "Element", "Status"}
            /\ DOMAIN d.Author =
                  {"uniqueid", "nickname", "link", "avatar", "element"}
            /\ DOMAIN d.Caption = {"tags", "text", "element"}
            /\ DOMAIN d.Music = {"title", "link", "element"}
            /\ DOMAIN d.Media = {"link", "element"}
            /\ DOMAIN d.Metrics =
                  {"likes", "comments", "shares", "as_of", "element"}
            /\ d.Caption.tags.cls = "list"
            /\ Len(tags) = Len(entity.caption.tags)
            /\ \A i \in 1..Len(tags) :
                  /\ DOMAIN tags[i] = {"link", "text", "element"}
                  /\ tags[i].link = entity.caption.tags[i].link
                  /\ tags[i].text = entity.caption.tags[i].text
                  /\ IsSnapshot(tags[i].element)
                  /\ tags[i].element =
                        get_attribute(entity.caption.tags[i].element, {})
            /\ IsSnapshot(d.Element)
            /\ \A k \in {"Author", "Caption", "Music", "Media", "Metrics"} :
                  IsSnapshot(d[k].element)
            /\ d.id = entity.id
            /\ d.Status = entity.status

C10_Witness ==
    /\ entity.cls = "Tiktok"
    /\ result.op = "to_dict"
    /\ ~IsExc(result.value)
    /\ Len(result.value.Caption.tags.items) = 2
    /\ result.value.Caption.tags.items[1] # result.value.Caption.tags.items[2]

\* ======================================================================
\* Properties of equality (SpecCompare)
\* ======================================================================
NaturalKey(x) ==
    CASE x.cls = "Tag" -> <<x.text, x.link>>
      [] x.cls = "Author" -> <<x.uniqueid, x.link>>
      [] x.cls = "Music" -> <<x.title, x.link>>
      [] x.cls = "Tiktok" -> <<x.id>>

KeyedClasses == {"Tag", "Author", "Music", "Tiktok"}

\* C6: two values of the same kind are equal exactly when their natural keys
\* are equal (Tag: text and link; Author: uniqueid and link; Music: title
\* and link; record: id), whatever their handles and other fields.
C6_EqualIffNaturalKeysEqual ==
    (result.op = "eq" /\ entity.cls \in KeyedClasses /\ other.cls = entity.cls)
        => result.value = Bool(NaturalKey(entity) = NaturalKey(other))

C6_Witness ==
    /\ result.op = "eq"
    /\ entity.cls = "Tiktok"
    /\ other.cls = "Tiktok"
    /\ entity.id = other.id
    /\ entity.metrics # other.metrics
    /\ result.value = Bool(TRUE)

\* C7 as stated: comparing a Tag, an Author or a Music with a value of a
\* different kind, in either operand order, ends in an error and never in
\* true or false.
C7_CrossKindComparisonFails ==
    (/\ result.op = "eq"
     /\ entity.cls # other.cls
     /\ {entity.cls, other.cls} \cap {"Tag", "Author", "Music"} # {})
        => IsExc(result.value)

\* ======================================================================
\* Properties of save (Spec)
\* ======================================================================
FileWith(data) == [cls |-> "file", content |-> <<data>>]

MediaLinkEmpty == entity.media.link = Str(<<>>)

SaveFinished == result.op = "save"

ReturnedNormally == result.op = "save" /\ result.value = None

FetchSucceeded ==
    /\ result.op = "save"
    /\ result.fetch.cls = "Response"
    /\ result.fetch.status_code = 200

\* The fetch failed: the request raised, or the response came back with a
\* status that is not a success.
FetchFailed ==
    /\ result.op = "save"
    /\ \/ IsExc(result.fetch)
       \/ result.fetch.cls = "Response" /\ result.fetch.status_code # 200

OwnFiles == {json_path(entity, result.path), mp4_path(entity, result.path)}

\* C1: save creates no file when the media link is empty; when the link is
\* not empty and the metadata write and the fetch both succeed it creates
\* <id>.json and <id>.mp4 and touches no other file.
C1_SaveCreatesNothingOrBothFiles ==
    SaveFinished =>
        /\ MediaLinkEmpty => (files = before /\ ReturnedNormally)
        /\ (~MediaLinkEmpty /\ ReturnedNormally /\ FetchSucceeded) =>
              /\ \A n \in OwnFiles : files[n] # NoFile
              /\ \A n \in FileNames \ OwnFiles : files[n] = before[n]

C1_Witness ==
    /\ SaveFinished
    /\ ~MediaLinkEmpty
    /\ FetchSucceeded
    /\ \A n \in OwnFiles : before[n] = NoFile /\ files[n] # NoFile
    /\ \E n \in FileNames \ OwnFiles : files[n] # NoFile

\* C2 as stated: <id>.json is fully written before the fetch starts, and when
\* the fetch fails save ends in an error, <id>.json stays and <id>.mp4 is
\* neither created nor changed by this run.
C2_FailedFetchLeavesOnlyMetadata ==
    /\ pc = "save_video" =>
          files[json_path(entity, call)] =
              FileWith(json_dumps(Tiktok_to_dict(entity, {})))
    /\ FetchFailed =>
          /\ IsExc(result.value)
          /\ files[json_path(entity, result.path)] =
                FileWith(json_dumps(Tiktok_to_dict(entity, {})))
          /\ files[mp4_path(entity, result.path)] =
                before[mp4_path(entity, result.path)]

\* The part of C2 the code keeps: the metadata is complete before the fetch,
\* and a request that raises ends save with that error, the metadata on disk
\* and <id>.mp4 untouched.
C2_RaisedFetchLeavesOnlyMetadata ==
    /\ pc = "save_video" =>
          files[json_path(entity, call)] =
              FileWith(json_dumps(Tiktok_to_dict(entity, {})))
    /\ (SaveFinished /\ IsExc(result.fetch)) =>
          /\ result.value = result.fetch
          /\ files[json_path(entity, result.path)] =
                FileWith(json_dumps(Tiktok_to_dict(entity, {})))
          /\ files[mp4_path(entity, result.path)] =
                before[mp4_path(entity, result.path)]

\* C3 as stated: whenever the fetch fails, by a connection error or by a
\* response with a non-success status, save ends in an error.
C3_FailedFetchRaises == FetchFailed => IsExc(result.value)

\* The directory one successful save of self leaves when it starts empty.
SingleSave(self, path, response) ==
    [n \in FileNames |->
        IF n = json_path(self, path)
        THEN FileWith(json_dumps(Tiktok_to_dict(self, {})))
        ELSE IF n = mp4_path(self, path) THEN FileWith(response.content)
        ELSE NoFile]

\* C4: after any sequence of saves that ends with a successful one, the
\* record's two files hold what a single successful save on an empty
\* directory writes, and when only saves of this id have written to the
\* directory it holds exactly these two files.
C4_SaveOverwrites ==
    (ReturnedNormally /\ ~MediaLinkEmpty) =>
        LET single == SingleSave(entity, result.path, result.fetch)
        IN  /\ \A n \in OwnFiles : files[n] = single[n]
            /\ savedIds = {entity.id} => files = single

C4_Witness ==
    /\ ReturnedNormally
    /\ FetchSucceeded
    /\ savedIds = {entity.id}
    /\ before[json_path(entity, result.path)] # NoFile
    /\ before[mp4_path(entity, result.path)] # NoFile
    /\ before[mp4_path(entity, result.path)] #
          files[mp4_path(entity, result.path)]
    /\ files = SingleSave(entity, result.path, result.fetch)

====
